---- MODULE Spec2Model ----
(***************************************************************************)
(* A model of resume.py: the text clean-up of extract_text_from_pdf, the   *)
(* three line scanners parse_education / parse_experience / parse_skills,  *)
(* find_date_range, extract_personal_details and build_resume_json.        *)
(*                                                                         *)
(* Strings are TLA+ strings read character by character (Len, SubSeq, \o). *)
(* A text handed to the parsers is kept as the tuple text.split("\n") of   *)
(* its lines (the empty text is <<"">>).  The raw PDF text handed to the   *)
(* clean-up is a tuple of code points, the glyphs of the substitution      *)
(* table being named ("NBSP", "ZWSP", ...).  Python's None is "None"       *)
(* wrapped as NoneV; a present string s is Some(s).                        *)
(***************************************************************************)
EXTENDS Integers, Sequences, FiniteSets, TLC

VARIABLES
    fn,       \* the function that was called
    pc,       \* position inside the called function
    text,     \* parsers: the argument, as text.split("\n")
    i,        \* line scanners: index of the next line of the for loop
    capture,  \* line scanners: the capture flag
    edu,      \* parse_education: the list edu
    block,    \* parse_experience: the list block
    skills,   \* parse_skills: the list skills
    used,     \* history: indices of the lines the scanner took something from
    result,   \* the value returned (or the exception raised)
    doc,      \* clean-up: the text being cleaned, a tuple of code points
    prev,     \* clean-up: the text before the last clean-up pass
    passes,   \* clean-up: number of passes applied
    seg       \* find_date_range: the argument s

vars == <<fn, pc, text, i, capture, edu, block, skills, used, result,
          doc, prev, passes, seg>>

(***************************************************************************)
(* Bounds                                                                  *)
(***************************************************************************)
MaxLines == 4
MaxDocLen == 5
MaxDetailLines == 2
MaxSegTokens == 3

NoneV == [none |-> TRUE]
Some(s) == [some |-> s]

(***************************************************************************)
(* Characters and strings                                                  *)
(***************************************************************************)
At(s, k) == SubSeq(s, k, k)

Upper == "ABCDEFGHIJKLMNOPQRSTUVWXYZ"
Lower == "abcdefghijklmnopqrstuvwxyz"
Digits == "0123456789"

CharsOf(s) == {At(s, k) : k \in 1..Len(s)}
UpperSet == CharsOf(Upper)
LowerSet == CharsOf(Lower)
DigitSet == CharsOf(Digits)

IsDigit(c) == c \in DigitSet
IsAlpha(c) == c \in UpperSet \/ c \in LowerSet
\* \w
IsWord(c) == IsAlpha(c) \/ IsDigit(c) \/ c = "_"
\* \s, and what str.strip() removes
IsSpace(c) == c \in {" ", "\t", "\n", "NBSP"}

\* the pairs of characters that differ only in case
CasePairs ==
    UNION {{<<At(Upper, k), At(Lower, k)>>, <<At(Lower, k), At(Upper, k)>>} : k \in 1..26}

\* a = b, up to case when fold (re.I)
CharEq(a, b, fold) == a = b \/ (fold /\ <<a, b>> \in CasePairs)

\* s[k:k+len(w)] == w ; with fold, under re.I
MatchAt(s, k, w, fold) ==
    /\ k >= 1
    /\ k + Len(w) - 1 <= Len(s)
    /\ \A j \in 1..Len(w) : CharEq(At(s, k + j - 1), At(w, j), fold)

\* some alternative of the set ws matches at k
AnyAt(s, k, ws, fold) == \E w \in ws : MatchAt(s, k, w, fold)

\* re.search(r"(w1|w2|...)", s [, re.I]) is not None
Search(s, ws, fold) == \E k \in 1..Len(s) : AnyAt(s, k, ws, fold)

\* str.strip()
RECURSIVE LStrip(_)
LStrip(s) ==
    IF Len(s) > 0 /\ IsSpace(At(s, 1)) THEN LStrip(SubSeq(s, 2, Len(s))) ELSE s

RECURSIVE RStrip(_)
RStrip(s) ==
    IF Len(s) > 0 /\ IsSpace(At(s, Len(s)))
    THEN RStrip(SubSeq(s, 1, Len(s) - 1)) ELSE s

Strip(s) == RStrip(LStrip(s))

\* sequences over S of length lo..hi
SeqsBetween(S, lo, hi) == UNION {[1..n -> S] : n \in lo..hi}

(***************************************************************************)
(* 1. extract_text_from_pdf: the clean-up of the extracted text            *)
(***************************************************************************)
\* the code points the raw text is drawn from
DocChars == {"a", " ", "\t", "\n", "NBSP", "ZWSP", "ENDASH"}

\* repls, in the dict's insertion order (the key of line 19 repeats line 17's)
repls == << <<"PUA_F0D8", <<" ">> >>,
            <<"BULLET",   <<" ">> >>,
            <<"PUA_F06C", <<" ">> >>,
            <<"ENDASH",   <<"-">> >>,
            <<"EMDASH",   <<"-">> >>,
            <<"NBSP",     <<" ">> >>,
            <<"ZWSP",     <<>> >> >>

\* text.replace(k, v), k one code point
RECURSIVE ReplaceAll(_, _, _)
ReplaceAll(t, k, v) ==
    IF t = <<>> THEN <<>>
    ELSE (IF Head(t) = k THEN v ELSE <<Head(t)>>) \o ReplaceAll(Tail(t), k, v)

\* for k, v in repls.items(): text = text.replace(k, v)   (from entry n on)
RECURSIVE Substitute(_, _)
Substitute(t, n) ==
    IF n > Len(repls) THEN t
    ELSE Substitute(ReplaceAll(t, repls[n][1], repls[n][2]), n + 1)

\* t without its leading code points of the set cs
RECURSIVE DropWhile(_, _)
DropWhile(t, cs) ==
    IF t # <<>> /\ Head(t) \in cs THEN DropWhile(Tail(t), cs) ELSE t

\* re.sub(r"[ \t]+", " ", text)
RECURSIVE CollapseBlanks(_)
CollapseBlanks(t) ==
    IF t = <<>> THEN <<>>
    ELSE IF Head(t) \in {" ", "\t"}
         THEN <<" ">> \o CollapseBlanks(DropWhile(t, {" ", "\t"}))
         ELSE <<Head(t)>> \o CollapseBlanks(Tail(t))

\* re.sub(r"\n{3,}", "\n\n", text)
RECURSIVE CollapseNewlines(_)
CollapseNewlines(t) ==
    IF t = <<>> THEN <<>>
    ELSE IF Head(t) = "\n"
         THEN LET rest == DropWhile(t, {"\n"})
                  run == Len(t) - Len(rest)
              IN  (IF run >= 3 THEN <<"\n", "\n">> ELSE SubSeq(t, 1, run))
                  \o CollapseNewlines(rest)
         ELSE <<Head(t)>> \o CollapseNewlines(Tail(t))

\* text.strip(), on code points
RECURSIVE StripPoints(_)
StripPoints(t) ==
    IF t # <<>> /\ IsSpace(Head(t)) THEN StripPoints(Tail(t))
    ELSE IF t # <<>> /\ IsSpace(t[Len(t)]) THEN StripPoints(SubSeq(t, 1, Len(t) - 1))
    ELSE t

\* a plausible slip: the glyph table applied after the whitespace collapse
CleanUpSubstituteLate(t) ==
    StripPoints(CollapseNewlines(Substitute(CollapseBlanks(t), 1)))

\* lines 16-31 of extract_text_from_pdf
CleanUp(t) ==
    StripPoints(CollapseNewlines(CollapseBlanks(Substitute(t, 1))))

InitNorm ==
    /\ fn = "extract_text_from_pdf"
    /\ pc = "clean"
    /\ doc \in SeqsBetween(DocChars, 0, MaxDocLen)
    /\ prev = <<>>
    /\ passes = 0
    /\ text = <<"">> /\ i = 1 /\ capture = FALSE /\ edu = <<>> /\ block = <<>>
    /\ skills = <<>> /\ used = {} /\ result = NoneV /\ seg = ""

\* one run of the clean-up on the current text; prev records the texts so far
CleanText ==
    /\ fn = "extract_text_from_pdf"
    /\ passes < 2
    /\ doc' = CleanUp(doc)
    /\ prev' = Append(prev, doc)
    /\ passes' = passes + 1
    /\ pc' = IF passes = 1 THEN "done" ELSE "clean"
    /\ UNCHANGED <<fn, text, i, capture, edu, block, skills, used, result, seg>>

NextNorm == CleanText

SpecNorm == InitNorm /\ [][NextNorm]_vars

\* C4: cleaning an already cleaned text returns it unchanged
\* (normalize(normalize(x)) = normalize(x) for every text x).
C4_Idempotent == passes = 2 => doc = prev[2]

\* a raw text with a glyph, a blank run and a newline run went through both passes
C4_Witness ==
    /\ passes = 2
    /\ prev[1] # prev[2]
    /\ \E k \in 1..Len(prev[1]) : prev[1][k] \in {"NBSP", "ZWSP", "ENDASH"}
    /\ \E k \in 1..(Len(prev[1]) - 2) :
          prev[1][k] = "\n" /\ prev[1][k + 1] = "\n" /\ prev[1][k + 2] = "\n"
    /\ Len(doc) >= 2

(***************************************************************************)
(* 2. find_date_range                                                      *)
(*    The model's strings are ASCII: U+2013 and U+2014 are written ~ and ^,*)
(*    U+2022 is written *.                                                 *)
(***************************************************************************)
EnDash == "~"
EmDash == "^"
Bullet == "*"

\* s.replace(a, b), a and b one character (the string is halved, not walked)
RECURSIVE ReplaceChar(_, _, _)
ReplaceChar(s, a, b) ==
    IF Len(s) = 0 THEN ""
    ELSE IF Len(s) = 1 THEN (IF s = a THEN b ELSE s)
    ELSE ReplaceChar(SubSeq(s, 1, Len(s) \div 2), a, b)
         \o ReplaceChar(SubSeq(s, Len(s) \div 2 + 1, Len(s)), a, b)

\* number of characters from k on that satisfy \s
RECURSIVE WsRun(_, _)
WsRun(s, k) == IF k <= Len(s) /\ IsSpace(At(s, k)) THEN 1 + WsRun(s, k + 1) ELSE 0

\* MONTHS, each alternative's forms in the order the regex tries them
MonthForms == <<"January", "Jan", "February", "Feb", "March", "Mar", "April", "Apr",
                "May", "June", "Jun", "July", "Jul", "August", "Aug",
                "September", "Sept", "Sep", "October", "Oct", "November", "Nov",
                "December", "Dec">>

\* the characters a month name can start with, under re.I
MonthInitials ==
    UNION {{At(MonthForms[n], 1), At(Lower, CHOOSE k \in 1..26 : At(Upper, k) = At(MonthForms[n], 1))}
           : n \in 1..Len(MonthForms)}

\* \d{4} at k
FourDigits(s, k) == k + 3 <= Len(s) /\ \A j \in 0..3 : IsDigit(At(s, k + j))

\* MONTHS\s+\d{4} at k, with month form n: \s+ takes the whole whitespace run
\* (a digit is no whitespace, so no shorter run can succeed)
MonthYearWith(s, k, n) ==
    LET f == MonthForms[n]
        ws == WsRun(s, k + Len(f))
    IN  /\ MatchAt(s, k, f, TRUE)
        /\ ws >= 1
        /\ FourDigits(s, k + Len(f) + ws)

MinOf(S) == CHOOSE a \in S : \A b \in S : a <= b
MaxOf(S) == CHOOSE a \in S : \A b \in S : a >= b

\* no match
NoMatch == [mend |-> 0, end |-> 0]

\* the match of MONTHS\s+\d{4} at k with the month form f
MonthYearOf(s, k, f) ==
    [mend |-> k + Len(f) - 1, end |-> k + Len(f) + WsRun(s, k + Len(f)) + 3]

\* the first of the month forms ok that match, in the order the regex tries them
MonthYearPick(s, k, ok) ==
    IF ok = {} THEN NoMatch ELSE MonthYearOf(s, k, MonthForms[MinOf(ok)])

\* the match of MONTHS\s+\d{4} at k: [mend |-> last index of the month name,
\* end |-> last index of the match], or end = 0 when there is none
MonthYearAt(s, k) ==
    MonthYearPick(s, k, IF k <= Len(s) /\ At(s, k) \in MonthInitials
                        THEN {n \in 1..Len(MonthForms) : MonthYearWith(s, k, n)}
                        ELSE {})

\* the Present alternative at k, tried when the month-year alternative my failed
BoundOr(s, k, my) ==
    IF my.end > 0 THEN my
    ELSE IF MatchAt(s, k, "Present", TRUE) THEN [mend |-> 0, end |-> k + 6]
    ELSE NoMatch

\* (?:MONTHS\s+\d{4}|Present) at k, re.I: the month-year alternative first
BoundAt(s, k) == BoundOr(s, k, MonthYearAt(s, k))

\* [-to] under re.I
IsSepFold(c) == c \in {"-", "t", "o", "T", "O"}
\* [-to] without re.I
IsSep(c) == c \in {"-", "t", "o"}

RECURSIVE SepRunFold(_, _)
SepRunFold(s, k) ==
    IF k <= Len(s) /\ IsSepFold(At(s, k)) THEN 1 + SepRunFold(s, k + 1) ELSE 0

\* [-to]+ is greedy and gives characters back: of the run lengths n with a
\* bound after them (ends[n] > 0) the longest wins
RangeEndPick(ends) ==
    IF \A n \in DOMAIN ends : ends[n] = 0 THEN 0
    ELSE ends[MaxOf({n \in DOMAIN ends : ends[n] > 0})]

\* \s*[-to]+\s*(?:MONTHS\s+\d{4}|Present) with the run of - t o starting at p
RangeEndSep(s, p) ==
    RangeEndPick([n \in 1..SepRunFold(s, p) |-> BoundAt(s, p + n + WsRun(s, p + n)).end])

\* the rest of the range pattern after its first month-year match my
RangeEndAfter(s, my) ==
    IF my.end = 0 THEN 0 ELSE RangeEndSep(s, my.end + 1 + WsRun(s, my.end + 1))

\* the explicit range pattern of line 160 anchored at k: the last index of the
\* match, 0 when it does not match
RangeEndAt(s, k) == RangeEndAfter(s, MonthYearAt(s, k))

\* the leftmost k with ends[k] > 0 and its end, start = 0 when there is none
Leftmost(ends) ==
    IF \A k \in DOMAIN ends : ends[k] = 0 THEN [start |-> 0, end |-> 0]
    ELSE [start |-> MinOf({k \in DOMAIN ends : ends[k] > 0}),
          end |-> ends[MinOf({k \in DOMAIN ends : ends[k] > 0})]]

\* m = re.search(range pattern, s, re.I): [start, end] of the leftmost match,
\* start = 0 when there is none
RangeSearch(s) == Leftmost([k \in 1..Len(s) |-> RangeEndAt(s, k)])

\* re.split(r"[-to]+", g): the pieces between the maximal runs of - t o
RECURSIVE SplitSep(_, _)
SplitSep(g, cur) ==
    IF Len(g) = 0 THEN <<cur>>
    ELSE IF IsSep(At(g, 1))
         THEN LET rest == SubSeq(g, 2, Len(g))
              IN  IF Len(rest) > 0 /\ IsSep(At(rest, 1))
                  THEN SplitSep(rest, cur)
                  ELSE <<cur>> \o SplitSep(rest, "")
         ELSE SplitSep(SubSeq(g, 2, Len(g)), cur \o At(g, 1))

\* the non-overlapping matches of MONTHS\s+\d{4}|Present from k on, left to
\* right, each as [start, mend, end]; bs[q] is the match anchored at q
RECURSIVE FindFrom(_, _)
\* the scan goes on after the match anchored at q
FindNext(bs, q) ==
    <<[start |-> q, mend |-> bs[q].mend, end |-> bs[q].end]>> \o FindFrom(bs, bs[q].end + 1)

\* the scan from k: the next match is the leftmost one anchored at k or later
FindFrom(bs, k) ==
    IF \A q \in k..Len(bs) : bs[q].end = 0 THEN <<>>
    ELSE FindNext(bs, MinOf({q \in k..Len(bs) : bs[q].end > 0}))

FindBounds(s, k) == FindFrom([q \in 1..Len(s) |-> BoundAt(s, q)], k)

\* what re.findall returns for one match of a pattern with one group: the
\* group, i.e. the month name, and "" for a match of the Present alternative
GroupText(s, b) == IF b.mend = 0 THEN "" ELSE SubSeq(s, b.start, b.mend)
\* the whole text of the match
FullText(s, b) == SubSeq(s, b.start, b.end)

\* the groups of the matches bs
GroupTexts(s, bs) == [n \in 1..Len(bs) |-> GroupText(s, bs[n])]

\* all_my = re.findall(fr"{MONTHS}\s+\d{{4}}|Present", s, re.I)
FindAllMonthYear(s) == GroupTexts(s, FindBounds(s, 1))

\* parts = re.split(r"[-to]+", m.group(0)), <<>> when m is None
RangeParts(s, m) ==
    IF m.start = 0 THEN <<>> ELSE SplitSep(SubSeq(s, m.start, m.end), "")

\* lines 161-170, given the match m, its parts and all_my
DateRangeFrom(m, parts, all_my) ==
    IF m.start > 0 /\ Len(parts) = 2
    THEN <<Some(Strip(parts[1])), Some(Strip(parts[2]))>>
    ELSE IF Len(all_my) >= 2 THEN <<Some(all_my[1]), Some(all_my[2])>>
    ELSE IF Len(all_my) = 1 THEN <<Some(all_my[1]), NoneV>>
    ELSE <<NoneV, NoneV>>

\* lines 160-170, m being the match of the range pattern in s
DateRangeWith(s, m) == DateRangeFrom(m, RangeParts(s, m), FindAllMonthYear(s))

\* lines 160-170, s being the argument with its dashes replaced
DateRange(s) == DateRangeWith(s, RangeSearch(s))

\* find_date_range(s): <<start, end>>
find_date_range(s) == DateRange(ReplaceChar(ReplaceChar(s, EnDash, "-"), EmDash, "-"))

\* " ".join(ts)
RECURSIVE JoinSpace(_)
JoinSpace(ts) ==
    IF Len(ts) = 0 THEN ""
    ELSE IF Len(ts) = 1 THEN ts[1]
    ELSE ts[1] \o " " \o JoinSpace(Tail(ts))

\* the pieces the segments handed to find_date_range are made of
SegTokens == {"Jan 2020", "March 2021", "Oct 2019", "JUNE 2018", "Present",
              "-", "to", "~", "at TCS", "Jan 2020-Mar 2021"}

InitDates ==
    /\ fn = "find_date_range"
    /\ pc = "call"
    /\ seg \in {JoinSpace(ts) : ts \in SeqsBetween(SegTokens, 0, MaxSegTokens)}
    /\ result = NoneV
    /\ text = <<"">> /\ i = 1 /\ capture = FALSE /\ edu = <<>> /\ block = <<>>
    /\ skills = <<>> /\ used = {} /\ doc = <<>> /\ prev = <<>> /\ passes = 0

\* the call find_date_range(seg)
FindDateRange ==
    /\ fn = "find_date_range"
    /\ pc = "call"
    /\ result' = find_date_range(seg)
    /\ pc' = "done"
    /\ UNCHANGED <<fn, text, i, capture, edu, block, skills, used, doc, prev, passes, seg>>

NextDates == FindDateRange

SpecDates == InitDates /\ [][NextDates]_vars

\* the full text of the two bounds of the explicit range m found in s
RangeBounds(s, m) ==
    LET k2 == CHOOSE k \in (m.start + 1)..m.end : BoundAt(s, k).end = m.end
    IN  <<Some(SubSeq(s, m.start, MonthYearAt(s, m.start).end)),
          Some(SubSeq(s, k2, m.end))>>

\* C8: find_date_range returns full bounds, each a complete month-year token
\* or "Present": the two bounds of an explicit range if there is one, else the
\* first two standalone tokens, else the only token as start with no end,
\* else no bound at all.
C8_FullBounds ==
    (fn = "find_date_range" /\ pc = "done") =>
        LET s == ReplaceChar(ReplaceChar(seg, EnDash, "-"), EmDash, "-")
            m == RangeSearch(s)
            bs == FindBounds(s, 1)
        IN  IF m.start > 0 THEN result = RangeBounds(s, m)
            ELSE IF Len(bs) >= 2
                 THEN result = <<Some(FullText(s, bs[1])), Some(FullText(s, bs[2]))>>
            ELSE IF Len(bs) = 1 THEN result = <<Some(FullText(s, bs[1])), NoneV>>
            ELSE result = <<NoneV, NoneV>>

(***************************************************************************)
(* 3. The line scanners                                                    *)
(***************************************************************************)
\* get_lines(text): the stripped lines that are not blank
RECURSIVE get_lines(_)
get_lines(ls) ==
    IF Len(ls) = 0 THEN <<>>
    ELSE (IF Strip(ls[1]) # "" THEN <<Strip(ls[1])>> ELSE <<>>) \o get_lines(Tail(ls))

\* the list a scanner's for loop walks: get_lines(text) in parse_education,
\* text.split("\n") in parse_experience and parse_skills
LinesOf(f) == IF f = "parse_education" THEN get_lines(text) ELSE text

\* the heading keywords that open a scanner (re.I)
EduHeadings == {"education"}
ExpHeadings == {"work experience", "professional experience"}
SkillHeadings == {"skills", "toolkit", "languages"}

\* the keywords at which a capturing scanner breaks (re.I)
EduTerminators == {"work experience", "skills", "objective", "references"}
ExpTerminators == {"education", "skills", "objective", "references"}
SkillTerminators == {"experience", "education", "objective", "references"}

\* line 90, first alternative (re.I)
DegreeKeywords == {"Diploma", "Degree", "Course", "Certificate", "SSLC", "PUC", "B.", "M."}

\* \b at the gap before index k of s
WordBoundary(s, k) ==
    LET before == k > 1 /\ k - 1 <= Len(s) /\ IsWord(At(s, k - 1))
        after == k >= 1 /\ k <= Len(s) /\ IsWord(At(s, k))
    IN  before # after

\* \b(?:19|20)\d{2}\b at k
YearAt(s, k) ==
    /\ k + 3 <= Len(s)
    /\ (MatchAt(s, k, "19", FALSE) \/ MatchAt(s, k, "20", FALSE))
    /\ IsDigit(At(s, k + 2)) /\ IsDigit(At(s, k + 3))
    /\ WordBoundary(s, k) /\ WordBoundary(s, k + 4)

\* re.findall(r"\b(?:19|20)\d{2}\b", ln), from k on
RECURSIVE FindYears(_, _)
FindYears(s, k) ==
    IF k > Len(s) THEN <<>>
    ELSE IF YearAt(s, k) THEN <<SubSeq(s, k, k + 3)>> \o FindYears(s, k + 4)
    ELSE FindYears(s, k + 1)

\* the test of line 90
IsEducationLine(ln) ==
    Search(ln, DegreeKeywords, TRUE) \/ \E k \in 1..Len(ln) : YearAt(ln, k)

\* a plausible slip: the two years assigned the wrong way round
EducationEntrySwapped(ln) ==
    LET years == FindYears(ln, 1)
    IN  [details |-> Strip(ln),
         start_year |-> IF Len(years) >= 2 THEN Some(years[2]) ELSE NoneV,
         end_year |-> IF Len(years) >= 2 THEN Some(years[1])
                      ELSE IF Len(years) = 1 THEN Some(years[1]) ELSE NoneV]

\* lines 91-101: the entry appended for an education line
EducationEntry(ln) ==
    LET years == FindYears(ln, 1)
    IN  [details |-> Strip(ln),
         start_year |-> IF Len(years) >= 2 THEN Some(years[1]) ELSE NoneV,
         end_year |-> IF Len(years) >= 2 THEN Some(years[2])
                      ELSE IF Len(years) = 1 THEN Some(years[1]) ELSE NoneV]

\* a plausible slip: the terminator only switches capturing off, and the loop goes on
AfterTerminatorReopen(f) == [pc |-> "loop", capture |-> FALSE, i |-> i + 1]

\* the break of lines 89, 186 and 235: the loop is left, nothing else changes
AfterTerminator(f) == [pc |-> "break", capture |-> capture, i |-> i]

\* one iteration of the for loop of parse_education (lines 83-101)
EduStep ==
    /\ fn = "parse_education" /\ pc = "loop"
    /\ i <= Len(LinesOf(fn))
    /\ LET ln == LinesOf(fn)[i]
       IN  IF Search(ln, EduHeadings, TRUE)
           THEN /\ capture' = TRUE /\ i' = i + 1
                /\ UNCHANGED <<pc, edu, used>>
           ELSE IF capture /\ Search(ln, EduTerminators, TRUE)
           THEN /\ pc' = AfterTerminator(fn).pc
                /\ capture' = AfterTerminator(fn).capture
                /\ i' = AfterTerminator(fn).i
                /\ UNCHANGED <<edu, used>>
           ELSE IF capture
           THEN /\ edu' = IF IsEducationLine(ln) THEN Append(edu, EducationEntry(ln)) ELSE edu
                /\ used' = IF IsEducationLine(ln) THEN used \cup {i} ELSE used
                /\ i' = i + 1
                /\ UNCHANGED <<pc, capture>>
           ELSE /\ i' = i + 1
                /\ UNCHANGED <<pc, capture, edu, used>>
    /\ UNCHANGED <<fn, text, block, skills, result, doc, prev, passes, seg>>

\* the loop of a scanner is over: exhausted, or left by break
LoopOver == pc = "break" \/ (pc = "loop" /\ i > Len(LinesOf(fn)))

\* return edu (line 102)
EduReturn ==
    /\ fn = "parse_education" /\ LoopOver
    /\ result' = edu
    /\ pc' = "done"
    /\ UNCHANGED <<fn, text, i, capture, edu, block, skills, used, doc, prev, passes, seg>>

\* one iteration of the for loop of parse_experience (lines 180-188)
ExpStep ==
    /\ fn = "parse_experience" /\ pc = "loop"
    /\ i <= Len(LinesOf(fn))
    /\ LET ln == LinesOf(fn)[i]
       IN  IF Search(ln, ExpHeadings, TRUE)
           THEN /\ capture' = TRUE /\ i' = i + 1
                /\ UNCHANGED <<pc, block, used>>
           ELSE IF capture /\ Search(ln, ExpTerminators, TRUE)
           THEN /\ pc' = AfterTerminator(fn).pc
                /\ capture' = AfterTerminator(fn).capture
                /\ i' = AfterTerminator(fn).i
                /\ UNCHANGED <<block, used>>
           ELSE IF capture
           THEN /\ block' = IF Strip(ln) # "" THEN Append(block, Strip(ln)) ELSE block
                /\ used' = IF Strip(ln) # "" THEN used \cup {i} ELSE used
                /\ i' = i + 1
                /\ UNCHANGED <<pc, capture>>
           ELSE /\ i' = i + 1
                /\ UNCHANGED <<pc, capture, block, used>>
    /\ UNCHANGED <<fn, text, edu, skills, result, doc, prev, passes, seg>>

\* the alternatives of the split pattern of line 197 (re.I)
SplitKeywords == <<"Stress Engineer", "Design Engineer", "Software Engineer",
                   "UI/UX Designer", "Developer", "Manager">>
\* the alternatives of the role pattern of line 207 (re.I)
RoleKeywords == <<"Stress Engineer", "Design Engineer", "UI/UX Designer",
                  "Graphic Designer", "Developer", "Manager">>
\* the alternatives of the company pattern of line 212 (re.I)
Companies == <<"Capgemini", "Quest Global", "TCS", "Infosys", "Wipro",
               "Accenture", "Cognizant">>

Range(t) == {t[n] : n \in 1..Len(t)}

\* the indices of s at which some alternative matches
MatchStarts(s, alts, fold) == {k \in 1..Len(s) : AnyAt(s, k, Range(alts), fold)}

\* m = re.search(r"(a1|a2|...)", s, re.I); m.group(1), or None: the leftmost
\* match, and there the first alternative that matches
FirstMatch(s, alts, fold) ==
    LET ks == MatchStarts(s, alts, fold)
    IN  IF ks = {} THEN NoneV
        ELSE LET k == CHOOSE a \in ks : \A b \in ks : a <= b
                 ns == {n \in 1..Len(alts) : MatchAt(s, k, alts[n], fold)}
                 n == CHOOSE a \in ns : \A b \in ns : a <= b
             IN  Some(SubSeq(s, k, k + Len(alts[n]) - 1))

\* the pieces of s cut at the sorted indices of cuts, s[from..] being the rest
RECURSIVE CutAt(_, _, _)
CutAt(s, from, cuts) ==
    IF cuts = {} THEN <<SubSeq(s, from, Len(s))>>
    ELSE LET k == CHOOSE a \in cuts : \A b \in cuts : a <= b
         IN  <<SubSeq(s, from, k - 1)>> \o CutAt(s, k, cuts \ {k})

\* a plausible slip: the piece before the first keyword is dropped
SplitJobsDropFirst(s) == Tail(CutAt(s, 1, MatchStarts(s, SplitKeywords, TRUE)))

\* jobs = re.split(r"(?=Stress Engineer|...|Manager)", section_text, flags=re.I):
\* a cut before every occurrence of a keyword, the one at index 1 included
SplitJobs(s) == CutAt(s, 1, MatchStarts(s, SplitKeywords, TRUE))

\* lines 203-221: the entry of one stripped, non-empty job
ExperienceEntryWith(job, dr) ==
    [company |-> FirstMatch(job, Companies, TRUE),
     role |-> FirstMatch(job, RoleKeywords, TRUE),
     start_date |-> dr[1],
     end_date |-> dr[2],
     details |-> job]

\* start, end = find_date_range(job), then lines 205-221
ExperienceEntry(job) == ExperienceEntryWith(job, find_date_range(job))

\* the loop of lines 199-221 over the jobs
RECURSIVE ExperienceEntries(_)
ExperienceEntries(jobs) ==
    IF Len(jobs) = 0 THEN <<>>
    ELSE (IF Strip(jobs[1]) = "" THEN <<>> ELSE <<ExperienceEntry(Strip(jobs[1]))>>)
         \o ExperienceEntries(Tail(jobs))

\* lines 190-223: what parse_experience returns for the captured block
ExperiencesOf(b) ==
    IF Len(b) = 0 THEN <<>> ELSE ExperienceEntries(SplitJobs(JoinSpace(b)))

\* lines 190-223 of parse_experience
ExpReturn ==
    /\ fn = "parse_experience" /\ LoopOver
    /\ result' = ExperiencesOf(block)
    /\ pc' = "done"
    /\ UNCHANGED <<fn, text, i, capture, edu, block, skills, used, doc, prev, passes, seg>>

\* the delimiters of line 237
SkillDelimiters == {",", "/", "|", ";", Bullet, "-"}

\* re.split(r"[,/|;*\-]", ln): a cut at every delimiter
RECURSIVE SplitSkills(_, _)
SplitSkills(ln, cur) ==
    IF Len(ln) = 0 THEN <<cur>>
    ELSE IF At(ln, 1) \in SkillDelimiters
         THEN <<cur>> \o SplitSkills(SubSeq(ln, 2, Len(ln)), "")
         ELSE SplitSkills(SubSeq(ln, 2, Len(ln)), cur \o At(ln, 1))

\* lines 238-240: the stripped parts that are not empty
RECURSIVE StrippedParts(_)
StrippedParts(parts) ==
    IF Len(parts) = 0 THEN <<>>
    ELSE (IF Strip(parts[1]) # "" THEN <<Strip(parts[1])>> ELSE <<>>)
         \o StrippedParts(Tail(parts))

\* one iteration of the for loop of parse_skills (lines 230-240)
SkillsStep ==
    /\ fn = "parse_skills" /\ pc = "loop"
    /\ i <= Len(LinesOf(fn))
    /\ LET ln == LinesOf(fn)[i]
       IN  IF Search(ln, SkillHeadings, TRUE)
           THEN /\ capture' = TRUE /\ i' = i + 1
                /\ UNCHANGED <<pc, skills, used>>
           ELSE IF capture /\ Search(ln, SkillTerminators, TRUE)
           THEN /\ pc' = AfterTerminator(fn).pc
                /\ capture' = AfterTerminator(fn).capture
                /\ i' = AfterTerminator(fn).i
                /\ UNCHANGED <<skills, used>>
           ELSE IF capture
           THEN /\ skills' = skills \o StrippedParts(SplitSkills(ln, ""))
                /\ used' = IF StrippedParts(SplitSkills(ln, "")) # <<>> THEN used \cup {i} ELSE used
                /\ i' = i + 1
                /\ UNCHANGED <<pc, capture>>
           ELSE /\ i' = i + 1
                /\ UNCHANGED <<pc, capture, skills, used>>
    /\ UNCHANGED <<fn, text, edu, block, result, doc, prev, passes, seg>>

\* s folded to lower case
RECURSIVE LowerStr(_)
LowerStr(s) ==
    IF Len(s) = 0 THEN ""
    ELSE (IF At(s, 1) \in UpperSet
          THEN At(Lower, CHOOSE k \in 1..26 : At(Upper, k) = At(s, 1))
          ELSE At(s, 1)) \o LowerStr(SubSeq(s, 2, Len(s)))

\* a plausible slip: duplicates recognised without regard to case
RECURSIVE DedupFold(_, _)
DedupFold(t, seen) ==
    IF Len(t) = 0 THEN <<>>
    ELSE IF LowerStr(t[1]) \in seen THEN DedupFold(Tail(t), seen)
    ELSE <<t[1]>> \o DedupFold(Tail(t), seen \cup {LowerStr(t[1])})

\* the keys of dict.fromkeys(t), in insertion order
RECURSIVE DedupFrom(_, _)
DedupFrom(t, seen) ==
    IF Len(t) = 0 THEN <<>>
    ELSE IF t[1] \in seen THEN DedupFrom(Tail(t), seen)
    ELSE <<t[1]>> \o DedupFrom(Tail(t), seen \cup {t[1]})

\* a plausible slip: a case-insensitive de-duplication
DedupIgnoringCase(t) == DedupFold(t, {})

\* list(dict.fromkeys(skills)) (line 241)
Dedup(t) == DedupFrom(t, {})

\* return list(dict.fromkeys(skills))
SkillsReturn ==
    /\ fn = "parse_skills" /\ LoopOver
    /\ result' = Dedup(skills)
    /\ pc' = "done"
    /\ UNCHANGED <<fn, text, i, capture, edu, block, skills, used, doc, prev, passes, seg>>

(***************************************************************************)
(* 4. extract_personal_details and build_resume_json                       *)
(***************************************************************************)
\* "\n".join(ls): the text itself
RECURSIVE JoinLines(_)
JoinLines(ls) ==
    IF Len(ls) = 0 THEN ""
    ELSE IF Len(ls) = 1 THEN ls[1]
    ELSE ls[1] \o "\n" \o JoinLines(Tail(ls))

\* number of characters from k on that belong to the class cs
RECURSIVE RunOf(_, _, _)
RunOf(s, k, cs) == IF k <= Len(s) /\ At(s, k) \in cs THEN 1 + RunOf(s, k + 1, cs) ELSE 0

\* number of characters from k on that satisfy [^\s]
RECURSIVE NonSpaceRun(_, _)
NonSpaceRun(s, k) == IF k <= Len(s) /\ ~IsSpace(At(s, k)) THEN 1 + NonSpaceRun(s, k + 1) ELSE 0

AlphaChars == UpperSet \cup LowerSet
\* [A-Za-z0-9._%+-]
LocalChars == AlphaChars \cup DigitSet \cup {".", "_", "%", "+", "-"}
\* [A-Za-z0-9.-]
DomainChars == AlphaChars \cup DigitSet \cup {".", "-"}

\* the email pattern of line 42 anchored at k: last index of the match, else 0.
\* The local part runs up to the @; of the domain run the pattern keeps all up
\* to the letters after its last dot that is followed by two letters.
EmailEndAt(s, k) ==
    LET n == RunOf(s, k, LocalChars)
        a == k + n
    IN  IF n = 0 \/ a > Len(s) \/ At(s, a) # "@" THEN 0
        ELSE LET d == RunOf(s, a + 1, DomainChars)
                 dots == {q \in (a + 2)..(a + d) :
                             /\ At(s, q) = "."
                             /\ RunOf(s, q + 1, AlphaChars) >= 2}
             IN  IF dots = {} THEN 0
                 ELSE LET q == CHOOSE x \in dots : \A y \in dots : x >= y
                      IN  q + RunOf(s, q + 1, AlphaChars)

\* m = re.search(pattern, s); m.group(0), or None: ends[k] is the last index of
\* the pattern's match anchored at k (0: none), and the leftmost match wins
LeftmostMatch(s, ends) ==
    LET ks == {k \in 1..Len(s) : ends[k] > 0}
    IN  IF ks = {} THEN NoneV
        ELSE LET k == CHOOSE a \in ks : \A b \in ks : a <= b
             IN  Some(SubSeq(s, k, ends[k]))

IsPhoneSep(c) == IsSpace(c) \/ c = "-"

\* (?:\d[\s-]?){0,12} from k: <<number of repetitions, index after them>>
RECURSIVE PhoneBody(_, _, _)
PhoneBody(s, k, n) ==
    IF n < 12 /\ k <= Len(s) /\ IsDigit(At(s, k))
    THEN PhoneBody(s, IF k + 1 <= Len(s) /\ IsPhoneSep(At(s, k + 1)) THEN k + 2 ELSE k + 1,
                   n + 1)
    ELSE <<n, k>>

\* (?:\d[\s-]?){9,12} from k: last index of the match, else 0
PhoneBodyEnd(s, k) ==
    LET b == PhoneBody(s, k, 0) IN IF b[1] >= 9 THEN b[2] - 1 ELSE 0

\* the phone pattern of line 47 anchored at k: the country code with three,
\* two, one digit, then without it
PhoneEndAt(s, k) ==
    LET digits == RunOf(s, k + 1, DigitSet)
        After(n) == PhoneBodyEnd(s, k + 1 + n + WsRun(s, k + 1 + n))
        ok == {n \in 1..3 : n <= digits /\ After(n) > 0}
    IN  IF At(s, k) = "+" /\ ok # {}
        THEN After(CHOOSE n \in ok : \A o \in ok : n >= o)
        ELSE PhoneBodyEnd(s, k)

\* https?:// at k: index after it, else 0
SchemeEnd(s, k) ==
    IF MatchAt(s, k, "https://", TRUE) THEN k + 8
    ELSE IF MatchAt(s, k, "http://", TRUE) THEN k + 7
    ELSE 0

\* (https?://[^\s]{lead,}word[^\s]+) anchored at k, re.I: last index, else 0
LinkEndAt(s, k, word, lead) ==
    LET p == SchemeEnd(s, k)
        e == p + NonSpaceRun(s, p) - 1
    IN  IF p = 0 THEN 0
        ELSE IF \E q \in (p + lead)..(e - Len(word)) : MatchAt(s, q, word, TRUE)
        THEN e ELSE 0

LinkedinEndAt(s, k) == LinkEndAt(s, k, "linkedin", 1)
BehanceEndAt(s, k) == LinkEndAt(s, k, "behance", 0)

\* the test of line 54
IsNameLine(ln) ==
    /\ Len(ln) < 40
    /\ \E k \in 1..Len(ln) : IsAlpha(At(ln, k))
    /\ ~Search(ln, {"@", "www", "http"}, FALSE)

\* lines 51-56: the first name candidate among the first ten lines
NameOf(ls) ==
    LET ks == {k \in 1..Len(ls) : k <= 10 /\ IsNameLine(ls[k])}
    IN  IF ks = {} THEN NoneV
        ELSE Some(ls[CHOOSE a \in ks : \A b \in ks : a <= b])

StripSome(v) == IF v = NoneV THEN NoneV ELSE Some(Strip(v.some))

\* extract_personal_details(text)
extract_personal_details(ls) ==
    LET s == JoinLines(ls)
    IN  [name |-> NameOf(get_lines(ls)),
         email |-> LeftmostMatch(s, [k \in 1..Len(s) |-> EmailEndAt(s, k)]),
         phone |-> StripSome(LeftmostMatch(s, [k \in 1..Len(s) |-> PhoneEndAt(s, k)])),
         links |-> [linkedin |-> LeftmostMatch(s, [k \in 1..Len(s) |-> LinkedinEndAt(s, k)]),
                    behance |-> LeftmostMatch(s, [k \in 1..Len(s) |-> BehanceEndAt(s, k)])]]

\* the call extract_personal_details(text)
PersonalDetails ==
    /\ fn = "extract_personal_details" /\ pc = "call"
    /\ result' = extract_personal_details(text)
    /\ pc' = "done"
    /\ UNCHANGED <<fn, text, i, capture, edu, block, skills, used, doc, prev, passes, seg>>

\* an exception leaving a function
Raised(name) == [exception |-> name]

\* build_resume_json(text): the dict display evaluates its values in order;
\* the third names parse_experience_blocks, which the module never defines,
\* so the call raises NameError after the first two values are computed
build_resume_json(ls) == Raised("NameError")

\* the call build_resume_json(text)
BuildResumeJson ==
    /\ fn = "build_resume_json" /\ pc = "call"
    /\ result' = build_resume_json(text)
    /\ pc' = "done"
    /\ UNCHANGED <<fn, text, i, capture, edu, block, skills, used, doc, prev, passes, seg>>

(***************************************************************************)
(* 5. The calls                                                            *)
(***************************************************************************)
\* the lines the texts are made of
LineVocab == {"EDUCATION", "Professional Experience", "SKILLS", "Toolkit",
              " B.Tech, ABC University 2015 2019",
              "Capgemini Design Engineer, Manager Jan 2020 - Present",
              "Python, SQL, python, Diploma"}

\* the text of the end-to-end scenario
Scenario == <<"John Doe", "john@x.com", "+1 555-123-4567", "EDUCATION",
              "B.Tech Computer Science, ABC University 2015 2019",
              "WORK EXPERIENCE", "Software Engineer at TCS Jan 2020 - Present",
              "SKILLS", "Python, SQL">>

\* the empty text: "".split("\n") is [""]
EmptyText == <<"">>

\* the texts the line scanners are called on
Texts == SeqsBetween(LineVocab, 1, MaxLines) \cup {EmptyText, Scenario}
\* the texts extract_personal_details and build_resume_json are called on
ShortTexts == SeqsBetween(LineVocab \cup {"john@x.com", "+1 555-123-4567"}, 1, MaxDetailLines)
                  \cup {EmptyText, Scenario}

Scanners == {"parse_education", "parse_experience", "parse_skills"}
Functions == Scanners \cup {"extract_personal_details", "build_resume_json"}

\* a function of the module is called on a text
Init ==
    /\ fn \in Functions
    /\ text \in IF fn \in Scanners THEN Texts ELSE ShortTexts
    /\ pc = IF fn \in Scanners THEN "loop" ELSE "call"
    /\ i = 1 /\ capture = FALSE
    /\ edu = <<>> /\ block = <<>> /\ skills = <<>>
    /\ used = {}
    /\ result = NoneV
    /\ doc = <<>> /\ prev = <<>> /\ passes = 0 /\ seg = ""

Next ==
    \/ EduStep \/ EduReturn
    \/ ExpStep \/ ExpReturn
    \/ SkillsStep \/ SkillsReturn
    \/ PersonalDetails
    \/ BuildResumeJson

Spec == Init /\ [][Next]_vars

(***************************************************************************)
(* 6. Properties                                                           *)
(***************************************************************************)
Headings(f) ==
    IF f = "parse_education" THEN EduHeadings
    ELSE IF f = "parse_experience" THEN ExpHeadings ELSE SkillHeadings

\* the heading keywords of the two other sections
OtherHeadings(f) == (EduHeadings \cup ExpHeadings \cup SkillHeadings) \ Headings(f)

IsHeading(f, ln) == Search(ln, Headings(f), TRUE)
IsOtherHeading(f, ln) == Search(ln, OtherHeadings(f), TRUE)

\* what the scanner has collected so far
Collected == <<edu, block, skills>>

Done(f) == fn = f /\ pc = "done"

\* a returned record, not an exception
Returned(r) == "exception" \notin DOMAIN r

\* C1: build_resume_json("") completes without an error and returns a record
\* whose contact fields are all absent and whose three lists are empty.
C1_EmptyTextRecord ==
    (Done("build_resume_json") /\ text = EmptyText) =>
        /\ Returned(result)
        /\ result.personal_details.name = NoneV
        /\ result.personal_details.email = NoneV
        /\ result.personal_details.phone = NoneV
        /\ result.personal_details.links = [linkedin |-> NoneV, behance |-> NoneV]
        /\ result.education = <<>>
        /\ result.work_experience = <<>>
        /\ result.skills = <<>>

\* C2: when a heading line of the scanner's section is followed later by a
\* heading line of another section, every line the scanner takes lies strictly
\* between the first such heading line and the first other-section heading
\* line after it.
C2_Boundary ==
    (fn \in Scanners /\ pc = "done") =>
        LET ls == LinesOf(fn)
            hs == {h \in 1..Len(ls) : IsHeading(fn, ls[h])}
        IN  hs # {} =>
              LET h == CHOOSE a \in hs : \A b \in hs : a <= b
                  ts == {t \in (h + 1)..Len(ls) : IsOtherHeading(fn, ls[t])}
              IN  ts # {} =>
                    LET t == CHOOSE a \in ts : \A b \in ts : a <= b
                    IN  \A u \in used : h < u /\ u < t

\* C3: on the scenario text the pipeline yields the e-mail, the phone, one
\* education entry 2015-2019, one experience entry (Software Engineer, TCS,
\* Jan 2020, Present) and the skills Python and SQL.
C3_Scenario ==
    (Done("build_resume_json") /\ text = Scenario) =>
        /\ Returned(result)
        /\ result.personal_details.email = Some("john@x.com")
        /\ result.personal_details.phone = Some("+1 555-123-4567")
        /\ Len(result.education) = 1
        /\ result.education[1].start_year = Some("2015")
        /\ result.education[1].end_year = Some("2019")
        /\ Len(result.work_experience) = 1
        /\ result.work_experience[1].role = Some("Software Engineer")
        /\ result.work_experience[1].company = Some("TCS")
        /\ result.work_experience[1].start_date = Some("Jan 2020")
        /\ result.work_experience[1].end_date = Some("Present")
        /\ {"Python", "SQL"} \subseteq Range(result.skills)

\* index of the first occurrence of x in t
FirstIndex(t, x) == CHOOSE a \in 1..Len(t) : t[a] = x /\ \A b \in 1..(a - 1) : t[b] # x

\* C5: the skills returned are the distinct trimmed non-empty tokens of the
\* skills block, each once, in order of first occurrence, two tokens being the
\* same only when they are equal character for character.
C5_SkillsDedup ==
    Done("parse_skills") =>
        /\ \A t \in Range(skills) :
              /\ t # "" /\ Strip(t) = t
              /\ \A k \in 1..Len(t) : At(t, k) \notin SkillDelimiters
        /\ Range(result) = Range(skills)
        /\ \A a, b \in 1..Len(result) : a # b => result[a] # result[b]
        /\ \A a, b \in 1..Len(result) :
              a < b => FirstIndex(skills, result[a]) < FirstIndex(skills, result[b])

\* a skills block with a token repeated exactly and a token repeated in another case
C5_Witness ==
    /\ Done("parse_skills")
    /\ Len(skills) > Len(result)
    /\ result = <<"Python", "SQL", "python", "Diploma">>

\* C6: an education entry of a line with two or more year tokens has the first
\* as start and the second as end; with one year token that year is its only
\* year; with none it has no year.
C6_YearOrdering ==
    Done("parse_education") =>
        \A n \in 1..Len(result) :
            LET e == result[n]
                years == FindYears(e.details, 1)
            IN  /\ Len(years) >= 2 =>
                      e.start_year = Some(years[1]) /\ e.end_year = Some(years[2])
                /\ Len(years) = 1 =>
                      e.start_year = NoneV /\ e.end_year = Some(years[1])
                /\ Len(years) = 0 => e.start_year = NoneV /\ e.end_year = NoneV
                /\ e.details = "B.Tech, ABC University 2015 2019" =>
                      e.start_year = Some("2015") /\ e.end_year = Some("2019")

\* entries with two years, with one year and with none were returned
C6_Witness ==
    /\ Done("parse_education")
    /\ \E n \in 1..Len(result) :
          result[n].start_year = Some("2015") /\ result[n].end_year = Some("2019")
    /\ \E n \in 1..Len(result) :
          result[n].start_year = NoneV /\ result[n].end_year = Some("2020")
    /\ \E n \in 1..Len(result) :
          result[n].start_year = NoneV /\ result[n].end_year = NoneV

\* the joined block of parse_experience and the occurrences of the split keywords
SectionText == JoinSpace(block)
KeywordStarts == MatchStarts(SectionText, SplitKeywords, TRUE)
\* the text before the first keyword occurrence (all of it when there is none)
LeadingText ==
    IF KeywordStarts = {} THEN SectionText
    ELSE SubSeq(SectionText, 1, (CHOOSE a \in KeywordStarts : \A b \in KeywordStarts : a <= b) - 1)

StartsWithKeyword(job) == AnyAt(job, 1, Range(SplitKeywords), TRUE)

\* C7 as stated: one entry per keyword occurrence, each starting at its
\* keyword; the text before the first keyword is not an entry.
C7_LeadingDiscarded ==
    Done("parse_experience") =>
        /\ Len(result) = Cardinality(KeywordStarts)
        /\ \A n \in 1..Len(result) : StartsWithKeyword(result[n].details)

\* C7 amended: one entry per keyword occurrence, each starting at its keyword,
\* and before them one more entry holding the text that precedes the first
\* keyword whenever that text is not blank.
C7_LeadingKept ==
    Done("parse_experience") =>
        LET lead == Strip(LeadingText)
            extra == IF lead # "" THEN 1 ELSE 0
        IN  /\ Len(result) = Cardinality(KeywordStarts) + extra
            /\ lead # "" => result[1].details = lead
            /\ \A n \in (1 + extra)..Len(result) : StartsWithKeyword(result[n].details)

\* a block with text before its first keyword and several keyword occurrences
C7_Witness ==
    /\ Done("parse_experience")
    /\ Cardinality(KeywordStarts) >= 3
    /\ Len(result) = Cardinality(KeywordStarts) + 1
    /\ result[1].details = "Capgemini"

\* C9: an entry whose segment starts with a keyword of the splitting
\* vocabulary has that keyword as its role.
C9_RoleIsLeadingKeyword ==
    Done("parse_experience") =>
        \A n \in 1..Len(result) : \A w \in Range(SplitKeywords) :
            MatchAt(result[n].details, 1, w, TRUE) =>
                result[n].role = Some(SubSeq(result[n].details, 1, Len(w)))

\* the three states of a scanner
Phase ==
    IF pc = "break" \/ (pc = "done" /\ i <= Len(LinesOf(fn))) THEN "closed"
    ELSE IF capture THEN "capturing" ELSE "not-opened"

PhaseRank == CASE Phase = "not-opened" -> 0 [] Phase = "capturing" -> 1 [] OTHER -> 2

\* what holds of a scanner in every state: nothing is taken before the first
\* heading line, nor from the line the scanner closed at or any later line
ScannerShape ==
    fn \in Scanners =>
        LET ls == LinesOf(fn)
        IN  /\ Phase = "not-opened" => Collected = <<<<>>, <<>>, <<>>>> /\ used = {}
            /\ \A u \in used : \E h \in 1..(u - 1) : IsHeading(fn, ls[h])
            /\ Phase = "closed" => \A u \in used : u < i

\* what holds of every step of a scanner: the phase never goes back, and a
\* closed scanner reads and collects nothing
ScannerStep ==
    fn \in Scanners =>
        /\ PhaseRank' >= PhaseRank
        /\ Phase = "closed" => UNCHANGED <<i, capture, Collected, used>>

\* C10: a scanner only moves forward through not-opened, capturing, closed;
\* once closed it reads and collects nothing more, whatever follows; and it
\* takes nothing from the lines before the first heading line.
C10_ForwardOnly == []ScannerShape /\ [][ScannerStep]_vars

\* parse_education closed, and a heading line of its own section followed by
\* an education line comes after the line it closed at
C10_Witness ==
    /\ Done("parse_education")
    /\ Phase = "closed"
    /\ \E h \in (i + 1)..Len(LinesOf(fn)) :
          /\ IsHeading(fn, LinesOf(fn)[h])
          /\ \E k \in (h + 1)..Len(LinesOf(fn)) : IsEducationLine(LinesOf(fn)[k])

====
